---- MODULE Spec2Model ----
(***************************************************************************)
(* A model of s3d_graph::dag (src/dag.h) and of the query algorithms over  *)
(* it (src/unnamed/part_000, the header that test.cpp includes as          *)
(* "algorithms.h").                                                        *)
(*                                                                         *)
(* A std::vector is a sequence (index 1 is begin(), Len+1 is end()).  A    *)
(* directed_edge is a record [src, dst].  The standard algorithms the code *)
(* calls (lower_bound, upper_bound, binary_search, sort, unique,           *)
(* remove_if) are operators that compute what the library computes.        *)
(***************************************************************************)
EXTENDS Integers, Sequences, FiniteSets, TLC

\* Node ids are 0..MaxNode.  Where only construction is checked the caller
\* supplies at most MaxEdges edges and at most MaxExtra explicit nodes; where
\* the queries run on the constructed dag, at most QueryMaxEdges edges and at
\* most QueryMaxExtra explicit nodes; where two threads query it at once, at
\* most ThreadMaxEdges edges, between the nodes 0..ThreadMaxNode.
MaxNode == 2
MaxEdges == 3
MaxExtra == 1
QueryMaxEdges == 2
QueryMaxExtra == 0
ThreadMaxNode == 1
ThreadMaxEdges == 1

NodeIds == 0..MaxNode

\* directed_edge<NodeID>: the pair (m_src, m_dst).
directed_edge == [src : NodeIds, dst : NodeIds]

Edge(s, d) == [src |-> s, dst |-> d]

----------------------------------------------------------------------------
(* The standard library, as the code uses it.                              *)

\* The keys the comparison lambdas read: e.get_src(), e.get_dst(), count.first.
SrcKeys(es) == [i \in 1..Len(es) |-> es[i].src]
DstKeys(es) == [i \in 1..Len(es) |-> es[i].dst]
FirstKeys(cs) == [i \in 1..Len(cs) |-> cs[i].first]

\* std::lower_bound by bisection over [first, first + len): the index of the
\* first element that is not less than val (Len(keys) + 1 stands for end()).
RECURSIVE lb_loop(_, _, _, _)
lb_loop(keys, val, first, len) ==
    IF len <= 0 THEN first
    ELSE LET half == len \div 2
             middle == first + half
         IN IF keys[middle] < val
            THEN lb_loop(keys, val, middle + 1, len - half - 1)
            ELSE lb_loop(keys, val, first, half)

lower_bound(keys, val) == lb_loop(keys, val, 1, Len(keys))

\* std::upper_bound: the index of the first element that val is less than.
RECURSIVE ub_loop(_, _, _, _)
ub_loop(keys, val, first, len) ==
    IF len <= 0 THEN first
    ELSE LET half == len \div 2
             middle == first + half
         IN IF val < keys[middle]
            THEN ub_loop(keys, val, first, half)
            ELSE ub_loop(keys, val, middle + 1, len - half - 1)

upper_bound(keys, val) == ub_loop(keys, val, 1, Len(keys))

\* std::binary_search: lower_bound, then "found and not (val < *it)".
binary_search(keys, val) ==
    LET i == lower_bound(keys, val)
    IN (i /= Len(keys) + 1) /\ ~(val < keys[i])

\* vector::insert(begin() + (i - 1), x).
InsertAt(s, i, x) == SubSeq(s, 1, i - 1) \o <<x>> \o SubSeq(s, i, Len(s))

\* std::sort of node ids with operator<: the ascending arrangement.
RECURSIVE sort(_)
sort(s) ==
    IF s = << >> THEN << >>
    ELSE LET rest == sort(Tail(s))
         IN InsertAt(rest, upper_bound(rest, Head(s)), Head(s))

\* erase(std::unique(...), end()): drops each element equal to its predecessor.
RECURSIVE unique(_)
unique(s) ==
    IF Len(s) <= 1 THEN s
    ELSE LET rest == unique(Tail(s))
         IN IF Head(s) = Head(rest) THEN rest ELSE <<Head(s)>> \o rest

\* Every arrangement of the elements of s.
Arrangements(s) ==
    {[i \in 1..Len(s) |-> s[p[i]]] : p \in Permutations(1..Len(s))}

\* std::sort with a comparison on one key only.  std::sort is not stable, so
\* the order among edges with equal keys is whatever the library leaves:
\* every arrangement that is non-decreasing in the key is a possible result.
SortedBySrc(es) ==
    {a \in Arrangements(es) : \A i \in 1..(Len(a) - 1) : ~(a[i + 1].src < a[i].src)}

\* SortedByDst with the comparison of the first sort: get_src() for get_dst().
SortedByDst_SrcKey(es) ==
    {a \in Arrangements(es) : \A i \in 1..(Len(a) - 1) : ~(a[i + 1].src < a[i].src)}

SortedByDst(es) ==
    {a \in Arrangements(es) : \A i \in 1..(Len(a) - 1) : ~(a[i + 1].dst < a[i].dst)}

----------------------------------------------------------------------------
(* dag::build, the node gathering part.                                    *)

\* The for_each over m_edges_by_src that pushes src then dst of every edge.
RECURSIVE PushEndpoints(_, _)
PushEndpoints(all_nodes, es) ==
    IF es = << >> THEN all_nodes
    ELSE PushEndpoints(all_nodes \o <<Head(es).src, Head(es).dst>>, Tail(es))

\* GatherNodes without the erase(unique(...)) step.
GatherNodes_NoUnique(nodes, es_by_src) == sort(PushEndpoints(nodes, es_by_src))

\* node_id_vector all_nodes(node_begin, node_end); push; sort; unique.
GatherNodes(nodes, es_by_src) == unique(sort(PushEndpoints(nodes, es_by_src)))

----------------------------------------------------------------------------
(* dag::topological_sort, the queue-based version (src/dag.h 695-829).     *)

\* The largest size_t.  TLC's integers are 32 bits wide, so the largest of
\* them stands for 2^64 - 1: like the real one it is above every count a run
\* can hold, and a counter that wraps to it does not come back to zero.
SizeMax == 2147483647

\* --x on a size_t: wraps around at zero.
SizeDec(x) == IF x = 0 THEN SizeMax ELSE x - 1

\* std::transform of m_all_nodes into {id, size_t(0)} records.
ZeroCounts(all_nodes) ==
    [i \in 1..Len(all_nodes) |-> [first |-> all_nodes[i], second |-> 0]]

\* CountIncoming with "it->second = 1" for "++it->second": a flag, not a count.
RECURSIVE CountIncoming_Flag(_, _)
CountIncoming_Flag(counts, es) ==
    IF es = << >> THEN counts
    ELSE LET it == lower_bound(FirstKeys(counts), Head(es).dst)
         IN CountIncoming_Flag([counts EXCEPT ![it].second = 1], Tail(es))

\* The for_each over m_edges_by_dst: ++it->second at lower_bound(edge.get_dst()).
RECURSIVE CountIncoming(_, _)
CountIncoming(counts, es) ==
    IF es = << >> THEN counts
    ELSE LET it == lower_bound(FirstKeys(counts), Head(es).dst)
         IN CountIncoming(
                [counts EXCEPT ![it].second = counts[it].second + 1],
                Tail(es))

\* PushDestinations from the last edge of the range to the first.
PushDestinations_Reversed(to_process, es_by_src, id) ==
    LET begin_it == lower_bound(SrcKeys(es_by_src), id)
        end_it == upper_bound(SrcKeys(es_by_src), id)
    IN to_process \o [i \in 1..(end_it - begin_it) |-> es_by_src[end_it - i].dst]

\* The for_each over [begin_it, end_it) of m_edges_by_src that pushes every
\* destination of an edge leaving id onto to_process.
PushDestinations(to_process, es_by_src, id) ==
    LET begin_it == lower_bound(SrcKeys(es_by_src), id)
        end_it == upper_bound(SrcKeys(es_by_src), id)
    IN to_process \o [i \in 1..(end_it - begin_it) |-> es_by_src[begin_it + i - 1].dst]

\* The state of the sort: the local vectors and the member being filled.
KahnState(counts, to_process, sorted_nodes) ==
    [incoming_counts |-> counts, to_process |-> to_process, sorted_nodes |-> sorted_nodes]

\* for(auto &count : incoming_counts): one iteration, at index i.
RootStep(st, es_by_src, i) ==
    LET count == st.incoming_counts[i]
    IN IF count.second = 0
       THEN KahnState(st.incoming_counts,
                      PushDestinations(st.to_process, es_by_src, count.first),
                      Append(st.sorted_nodes, count.first))
       ELSE st

RECURSIVE RootScan(_, _, _)
RootScan(st, es_by_src, i) ==
    IF i > Len(st.incoming_counts) THEN st
    ELSE RootScan(RootStep(st, es_by_src, i), es_by_src, i + 1)

\* QueueStep that pushes the destinations after every decrement, not only
\* after the one that reaches zero.
QueueStep_PushesAlways(st, es_by_src) ==
    LET next_vertex == Head(st.to_process)
        popped == Tail(st.to_process)
        count_it == lower_bound(FirstKeys(st.incoming_counts), next_vertex)
        second == SizeDec(st.incoming_counts[count_it].second)
        counts == [st.incoming_counts EXCEPT ![count_it].second = second]
        pushed == PushDestinations(popped, es_by_src, counts[count_it].first)
    IN IF second = 0
       THEN KahnState(counts, pushed, Append(st.sorted_nodes, counts[count_it].first))
       ELSE KahnState(counts, pushed, st.sorted_nodes)

\* while(!to_process.empty()): one iteration.
QueueStep(st, es_by_src) ==
    LET next_vertex == Head(st.to_process)
        popped == Tail(st.to_process)
        count_it == lower_bound(FirstKeys(st.incoming_counts), next_vertex)
        second == SizeDec(st.incoming_counts[count_it].second)
        counts == [st.incoming_counts EXCEPT ![count_it].second = second]
    IN IF second = 0
       THEN KahnState(counts,
                      PushDestinations(popped, es_by_src, counts[count_it].first),
                      Append(st.sorted_nodes, counts[count_it].first))
       ELSE KahnState(counts, popped, st.sorted_nodes)

RECURSIVE QueueLoop(_, _)
QueueLoop(st, es_by_src) ==
    IF st.to_process = << >> THEN st
    ELSE QueueLoop(QueueStep(st, es_by_src), es_by_src)

\* Finish with m_valid left at the true it was given at the top.
Finish_NoSizeTest(sorted_nodes, all_nodes) ==
    [valid |-> TRUE, sorted_nodes |-> sorted_nodes]

\* Finish without the clear() of the partial order.
Finish_NoClear(sorted_nodes, all_nodes) ==
    [valid |-> (Len(sorted_nodes) = Len(all_nodes)), sorted_nodes |-> sorted_nodes]

\* The final settings of m_valid and m_sorted_nodes (lines 823-828).
Finish(sorted_nodes, all_nodes) ==
    LET valid == (Len(sorted_nodes) = Len(all_nodes))
    IN [valid |-> valid, sorted_nodes |-> IF ~valid THEN << >> ELSE sorted_nodes]

\* The whole function: [valid, sorted_nodes] as it leaves them.
topological_sort(es_by_src, es_by_dst, all_nodes) ==
    LET counts == CountIncoming(ZeroCounts(all_nodes), es_by_dst)
        roots == RootScan(KahnState(counts, << >>, << >>), es_by_src, 1)
        final == QueueLoop(roots, es_by_src)
    IN Finish(final.sorted_nodes, all_nodes)

----------------------------------------------------------------------------
(* dag::topological_sort, the rescanning version (src/dag.h 175-247).      *)

\* The test of the for loop: no remaining edge points to node.
NoIncoming(remaining_edges, node) ==
    LET edge_it == lower_bound(DstKeys(remaining_edges), node)
    IN ~((edge_it /= Len(remaining_edges) + 1) /\ (remaining_edges[edge_it].dst = node))

\* RescanPass without the erase of the edges that leave the removed nodes.
RescanPass_KeepsEdges(st) ==
    LET to_go == SelectSeq(st.remaining_nodes,
                           LAMBDA node : NoIncoming(st.remaining_edges, node))
    IN [valid |-> to_go /= << >>,
        sorted_nodes |-> st.sorted_nodes \o to_go,
        remaining_nodes |->
            IF to_go /= << >>
            THEN SelectSeq(st.remaining_nodes, LAMBDA n : ~binary_search(to_go, n))
            ELSE st.remaining_nodes,
        remaining_edges |-> st.remaining_edges]

\* One pass of the while loop.
RescanPass(st) ==
    LET to_go == SelectSeq(st.remaining_nodes,
                           LAMBDA node : NoIncoming(st.remaining_edges, node))
    IN [valid |-> to_go /= << >>,
        sorted_nodes |-> st.sorted_nodes \o to_go,
        remaining_nodes |->
            IF to_go /= << >>
            THEN SelectSeq(st.remaining_nodes, LAMBDA n : ~binary_search(to_go, n))
            ELSE st.remaining_nodes,
        remaining_edges |->
            IF to_go /= << >>
            THEN SelectSeq(st.remaining_edges, LAMBDA e : ~binary_search(to_go, e.src))
            ELSE st.remaining_edges]

RECURSIVE RescanLoop(_)
RescanLoop(st) ==
    IF st.valid /\ st.remaining_nodes /= << >> THEN RescanLoop(RescanPass(st)) ELSE st

topological_sort_rescan(es_by_dst, all_nodes) ==
    LET final == RescanLoop([valid |-> TRUE,
                             sorted_nodes |-> << >>,
                             remaining_nodes |-> all_nodes,
                             remaining_edges |-> es_by_dst])
    IN [valid |-> final.valid,
        sorted_nodes |-> IF ~final.valid THEN << >> ELSE final.sorted_nodes]

----------------------------------------------------------------------------
(* The queries (src/unnamed/part_000).  graph is the dag they read:        *)
(* [valid, edges_by_src, edges_by_dst, all_nodes], what get_valid(),       *)
(* get_edges_by_src(), get_edges_by_dst() and get_all_nodes() return.  out *)
(* is the caller's vector as it is passed in.  Each query returns          *)
(* [ret, out]: the bool it returns and the caller's vector as it leaves it.*)

Result(ret, out) == [ret |-> ret, out |-> out]

\* A clear() that is missing: the vector keeps what it held.
clear_Missing(v) == v

\* vector::clear().
clear(v) == << >>

\* The while loop of find_before / find_after: from edge_it on, as long as
\* the key equals node_id, emplace_back the other end.
RECURSIVE CollectWhile(_, _, _, _, _)
CollectWhile(keys, others, node_id, edge_it, out) ==
    IF (edge_it /= Len(keys) + 1) /\ (keys[edge_it] = node_id)
    THEN CollectWhile(keys, others, node_id, edge_it + 1, Append(out, others[edge_it]))
    ELSE out

\* find_before without the erase(unique(...)) of line 43.
find_before_NoUnique(graph, node_id, out) ==
    IF graph.valid
    THEN LET edges == graph.edges_by_dst
             edge_it == lower_bound(DstKeys(edges), node_id)
             found == CollectWhile(DstKeys(edges), SrcKeys(edges),
                                   node_id, edge_it, clear(out))
         IN Result(TRUE, sort(found))
    ELSE Result(FALSE, clear(out))

find_before(graph, node_id, out) ==
    IF graph.valid
    THEN LET edges == graph.edges_by_dst
             edge_it == lower_bound(DstKeys(edges), node_id)
             found == CollectWhile(DstKeys(edges), SrcKeys(edges),
                                   node_id, edge_it, clear(out))
         IN Result(TRUE, unique(sort(found)))
    ELSE Result(FALSE, clear(out))

\* find_after with the membership test of find_all_siblings copied into it.
find_after_NeedsMember(graph, node_id, out) ==
    IF graph.valid /\ binary_search(graph.all_nodes, node_id)
    THEN LET edges == graph.edges_by_src
             edge_it == lower_bound(SrcKeys(edges), node_id)
             found == CollectWhile(SrcKeys(edges), DstKeys(edges),
                                   node_id, edge_it, clear(out))
         IN Result(TRUE, unique(sort(found)))
    ELSE Result(FALSE, clear(out))

find_after(graph, node_id, out) ==
    IF graph.valid
    THEN LET edges == graph.edges_by_src
             edge_it == lower_bound(SrcKeys(edges), node_id)
             found == CollectWhile(SrcKeys(edges), DstKeys(edges),
                                   node_id, edge_it, clear(out))
         IN Result(TRUE, unique(sort(found)))
    ELSE Result(FALSE, clear(out))

\* The state of a closure query: the to_process stack and the output.
Closure(to_process, out) == [to_process |-> to_process, out |-> out]

\* VisitEdge without the push: the far end is output but never expanded.
VisitEdge_NoPush(st, far) ==
    LET ins_it == lower_bound(st.out, far)
    IN IF (ins_it = Len(st.out) + 1) \/ (far /= st.out[ins_it])
       THEN [to_process |-> st.to_process, out |-> InsertAt(st.out, ins_it, far)]
       ELSE st

\* VisitEdge with push_back(far) for insert(ins_it, far).
VisitEdge_AppendsFar(st, far) ==
    LET ins_it == lower_bound(st.out, far)
    IN IF (ins_it = Len(st.out) + 1) \/ (far /= st.out[ins_it])
       THEN [to_process |-> Append(st.to_process, far), out |-> Append(st.out, far)]
       ELSE st

\* VisitEdge with the push outside the test: far is pushed for every edge.
VisitEdge_PushesAgain(st, far) ==
    LET ins_it == lower_bound(st.out, far)
    IN IF (ins_it = Len(st.out) + 1) \/ (far /= st.out[ins_it])
       THEN [to_process |-> Append(st.to_process, far), out |-> InsertAt(st.out, ins_it, far)]
       ELSE [to_process |-> Append(st.to_process, far), out |-> st.out]

\* The body of the inner while loop for one edge, far being its other end:
\* insert far into out at its lower_bound and push it, unless out holds it.
VisitEdge(st, far) ==
    LET ins_it == lower_bound(st.out, far)
    IN IF (ins_it = Len(st.out) + 1) \/ (far /= st.out[ins_it])
       THEN Closure(Append(st.to_process, far), InsertAt(st.out, ins_it, far))
       ELSE st

\* The inner while loop: every edge from edge_it on whose key is cur_id.
RECURSIVE VisitEdges(_, _, _, _, _)
VisitEdges(st, keys, others, cur_id, edge_it) ==
    IF (edge_it /= Len(keys) + 1) /\ (keys[edge_it] = cur_id)
    THEN VisitEdges(VisitEdge(st, others[edge_it]), keys, others, cur_id, edge_it + 1)
    ELSE st

\* One iteration of while(!to_process.empty()): pop the back, scan its edges.
ClosureStep(st, keys, others) ==
    LET cur_id == st.to_process[Len(st.to_process)]
        popped == SubSeq(st.to_process, 1, Len(st.to_process) - 1)
    IN VisitEdges(Closure(popped, st.out), keys, others, cur_id,
                  lower_bound(keys, cur_id))

\* ClosureLoop with an if for the while: the stack is popped once.
ClosureLoop_Once(st, keys, others) ==
    IF st.to_process = << >> THEN st ELSE ClosureStep(st, keys, others)

RECURSIVE ClosureLoop(_, _, _)
ClosureLoop(st, keys, others) ==
    IF st.to_process = << >> THEN st
    ELSE ClosureLoop(ClosureStep(st, keys, others), keys, others)

find_all_before(graph, node_id, out) ==
    IF graph.valid
    THEN LET edges == graph.edges_by_dst
         IN Result(TRUE, ClosureLoop(Closure(<<node_id>>, clear(out)),
                                     DstKeys(edges), SrcKeys(edges)).out)
    ELSE Result(FALSE, clear(out))

find_all_after(graph, node_id, out) ==
    IF graph.valid
    THEN LET edges == graph.edges_by_src
         IN Result(TRUE, ClosureLoop(Closure(<<node_id>>, clear(out)),
                                     SrcKeys(edges), DstKeys(edges)).out)
    ELSE Result(FALSE, clear(out))

\* NotSibling without the test for the node itself.
NotSibling_KeepsSelf(before, after, node_id, n) ==
    binary_search(before, n) \/ binary_search(after, n)

\* The remove_if predicate of find_all_siblings.
NotSibling(before, after, node_id, n) ==
    (n = node_id) \/ binary_search(before, n) \/ binary_search(after, n)

\* find_all_siblings without the test that all_nodes holds node_id.
find_all_siblings_NoMember(graph, node_id, out) ==
    IF graph.valid
    THEN LET before == find_all_before(graph, node_id, << >>).out
             after == find_all_after(graph, node_id, << >>).out
         IN IF (Len(before) + Len(after) + 1) < Len(graph.all_nodes)
            THEN Result(TRUE, SelectSeq(graph.all_nodes,
                                LAMBDA n : ~NotSibling(before, after, node_id, n)))
            ELSE Result(TRUE, clear(out))
    ELSE Result(FALSE, clear(out))

find_all_siblings(graph, node_id, out) ==
    IF graph.valid /\ binary_search(graph.all_nodes, node_id)
    THEN LET before == find_all_before(graph, node_id, << >>).out
             after == find_all_after(graph, node_id, << >>).out
         IN IF (Len(before) + Len(after) + 1) < Len(graph.all_nodes)
            THEN Result(TRUE, SelectSeq(graph.all_nodes,
                                LAMBDA n : ~NotSibling(before, after, node_id, n)))
            ELSE Result(TRUE, clear(out))
    ELSE Result(FALSE, clear(out))

\* The earlier find_all_siblings (src/dag.h 388-440): the erase is outside
\* the size test, and runs on the cleared vector when there are no siblings.
find_all_siblings_v1(graph, node_id, out) ==
    IF graph.valid /\ binary_search(graph.all_nodes, node_id)
    THEN LET before == find_all_before(graph, node_id, << >>).out
             after == find_all_after(graph, node_id, << >>).out
             copied == IF (Len(before) + Len(after) + 1) < Len(graph.all_nodes)
                       THEN graph.all_nodes ELSE clear(out)
         IN Result(TRUE, SelectSeq(copied,
                           LAMBDA n : ~NotSibling(before, after, node_id, n)))
    ELSE Result(FALSE, clear(out))

\* HasRemainingEdge with get_src() for get_dst() in the final comparison.
HasRemainingEdge_SrcKey(edges, n) ==
    LET e_it == lower_bound(DstKeys(edges), n)
    IN (e_it /= Len(edges) + 1) /\ (edges[e_it].src = n)

\* The last remove_if predicate of find_current_tasks: a remaining edge
\* points to n.
HasRemainingEdge(edges, n) ==
    LET e_it == lower_bound(DstKeys(edges), n)
    IN (e_it /= Len(edges) + 1) /\ (edges[e_it].dst = n)

\* find_current_tasks without the erase of the edges that leave done nodes.
find_current_tasks_AllEdges(graph, done, out) ==
    IF graph.valid
    THEN LET not_done == SelectSeq(graph.all_nodes, LAMBDA n : ~binary_search(done, n))
         IN Result(TRUE, SelectSeq(not_done,
                           LAMBDA n : ~HasRemainingEdge(graph.edges_by_dst, n)))
    ELSE Result(FALSE, clear(out))

find_current_tasks(graph, done, out) ==
    IF graph.valid
    THEN LET not_done == SelectSeq(graph.all_nodes, LAMBDA n : ~binary_search(done, n))
             edges == SelectSeq(graph.edges_by_dst,
                                LAMBDA e : ~binary_search(done, e.src))
         IN Result(TRUE, SelectSeq(not_done, LAMBDA n : ~HasRemainingEdge(edges, n)))
    ELSE Result(FALSE, clear(out))

\* find_current_tasks_reads with "auto &edges" for "auto edges": the erase
\* of lines 303-314 runs on the graph's own vector.
find_current_tasks_reads_InPlace(graph, done) ==
    [edges_by_dst |->
        IF graph.valid
        THEN SelectSeq(graph.edges_by_dst, LAMBDA e : ~binary_search(done, e.src))
        ELSE graph.edges_by_dst,
     done |-> done]

\* What a call of find_current_tasks leaves in the two vectors it reads:
\* edges is a copy of get_edges_by_dst() (line 286, auto without &), so the
\* erase of lines 303-314 is not on the graph's vector; done is const.
find_current_tasks_reads(graph, done) ==
    [edges_by_dst |-> graph.edges_by_dst, done |-> done]

----------------------------------------------------------------------------
(* The queries one step at a time, as a thread runs them.  A frame is the  *)
(* call of one thread: its arguments, its position (phase), its local      *)
(* vectors, the output vector its caller gave it and, on return, the bool. *)
(* callee holds the frame of the query that the call is in, if it is in    *)
(* one.  pushed records the ids pushed onto to_process after the starting  *)
(* id.                                                                     *)

\* A thread that has not called yet.  A call leaves the fields it does not
\* use as they are here.
Idle ==
    [pc |-> "idle", op |-> "none", node_id |-> 0, done |-> << >>,
     phase |-> "none", ret |-> FALSE, out |-> << >>,
     to_process |-> << >>, cur_id |-> 0, edge_it |-> 0,
     edges |-> << >>, before |-> << >>, after |-> << >>, callee |-> << >>,
     pushed |-> << >>]

\* return: the locals are gone, the caller has the bool and its vector.
Leave(l, ret) ==
    [Idle EXCEPT !.pc = "returned", !.op = l.op, !.node_id = l.node_id,
                 !.done = l.done, !.ret = ret, !.out = l.out, !.pushed = l.pushed]

\* The call up to the first loop: out.clear(), the test of get_valid() (and
\* of binary_search in find_all_siblings), the locals.
Enter(graph, op, node_id, done, l) ==
    LET c == [l EXCEPT !.pc = "running", !.op = op, !.node_id = node_id,
                       !.done = done, !.out = clear(l.out)]
    IN IF ~graph.valid
          \/ ((op = "find_all_siblings") /\ ~binary_search(graph.all_nodes, node_id))
       THEN Leave(c, FALSE)
       ELSE CASE op \in {"find_before", "find_after"} ->
                    [c EXCEPT !.phase = "collect"]
              [] op \in {"find_all_before", "find_all_after"} ->
                    [c EXCEPT !.phase = "pop", !.to_process = <<node_id>>]
              [] op = "find_all_siblings" ->
                    [c EXCEPT !.phase = "before",
                              !.callee = <<[Idle EXCEPT !.pc = "running",
                                                        !.op = "find_all_before",
                                                        !.node_id = node_id,
                                                        !.phase = "pop",
                                                        !.to_process = <<node_id>>]>>]
              [] op = "find_current_tasks" ->
                    [c EXCEPT !.phase = "erase_done", !.out = graph.all_nodes,
                              !.edges = graph.edges_by_dst]

\* find_before / find_after: the collecting loop, then sort and unique.
CollectStep(l, keys, others) ==
    IF l.phase = "collect"
    THEN [l EXCEPT !.phase = "sort",
                   !.out = CollectWhile(keys, others, l.node_id,
                                        lower_bound(keys, l.node_id), l.out)]
    ELSE Leave([l EXCEPT !.out = unique(sort(l.out))], TRUE)

\* find_all_before / find_all_after: at "pop" the test of the outer while
\* and lines 116-124, at "scan" the test of the inner while and one run of
\* its body.
ClosureAdvance(l, keys, others) ==
    IF l.phase = "pop"
    THEN IF l.to_process = << >>
         THEN Leave(l, TRUE)
         ELSE LET cur_id == l.to_process[Len(l.to_process)]
              IN [l EXCEPT !.phase = "scan",
                           !.cur_id = cur_id,
                           !.to_process = SubSeq(l.to_process, 1, Len(l.to_process) - 1),
                           !.edge_it = lower_bound(keys, cur_id)]
    ELSE IF (l.edge_it /= Len(keys) + 1) /\ (keys[l.edge_it] = l.cur_id)
         THEN LET st == VisitEdge(Closure(l.to_process, l.out), others[l.edge_it])
              IN [l EXCEPT !.to_process = st.to_process,
                           !.out = st.out,
                           !.edge_it = l.edge_it + 1,
                           !.pushed = IF Len(st.to_process) > Len(l.to_process)
                                      THEN Append(l.pushed, others[l.edge_it])
                                      ELSE l.pushed]
         ELSE [l EXCEPT !.phase = "pop"]

\* A step of the closure query that frame l has called: when the callee
\* returns, its output is in the local vector of l that it was given.
CalleeStep(graph, l) ==
    IF l.phase = "before"
    THEN LET c == ClosureAdvance(l.callee[1], DstKeys(graph.edges_by_dst),
                                 SrcKeys(graph.edges_by_dst))
         IN IF c.pc = "returned"
            THEN [l EXCEPT !.phase = "after",
                           !.before = c.out,
                           !.callee = <<Enter(graph, "find_all_after", l.node_id, << >>,
                                              [Idle EXCEPT !.out = l.after])>>]
            ELSE [l EXCEPT !.callee = <<c>>]
    ELSE LET c == ClosureAdvance(l.callee[1], SrcKeys(graph.edges_by_src),
                                 DstKeys(graph.edges_by_src))
         IN IF c.pc = "returned"
            THEN [l EXCEPT !.phase = "filter", !.after = c.out, !.callee = << >>]
            ELSE [l EXCEPT !.callee = <<c>>]

\* find_all_siblings: the two calls, then the size test and the erase.
SiblingsStep(graph, l) ==
    IF l.phase \in {"before", "after"}
    THEN CalleeStep(graph, l)
    ELSE IF (Len(l.before) + Len(l.after) + 1) < Len(graph.all_nodes)
         THEN Leave([l EXCEPT !.out =
                         SelectSeq(graph.all_nodes,
                             LAMBDA n : ~NotSibling(l.before, l.after, l.node_id, n))],
                    TRUE)
         ELSE Leave(l, TRUE)

\* find_current_tasks: the three erases.
CurrentTasksStep(l) ==
    CASE l.phase = "erase_done" ->
            [l EXCEPT !.phase = "erase_edges",
                      !.out = SelectSeq(l.out, LAMBDA n : ~binary_search(l.done, n))]
      [] l.phase = "erase_edges" ->
            [l EXCEPT !.phase = "erase_pointed",
                      !.edges = SelectSeq(l.edges, LAMBDA e : ~binary_search(l.done, e.src))]
      [] l.phase = "erase_pointed" ->
            Leave([l EXCEPT !.out =
                       SelectSeq(l.out, LAMBDA n : ~HasRemainingEdge(l.edges, n))],
                  TRUE)

\* The next step of a running call.
Step(graph, l) ==
    CASE l.op = "find_before" ->
            CollectStep(l, DstKeys(graph.edges_by_dst), SrcKeys(graph.edges_by_dst))
      [] l.op = "find_after" ->
            CollectStep(l, SrcKeys(graph.edges_by_src), DstKeys(graph.edges_by_src))
      [] l.op = "find_all_before" ->
            ClosureAdvance(l, DstKeys(graph.edges_by_dst), SrcKeys(graph.edges_by_dst))
      [] l.op = "find_all_after" ->
            ClosureAdvance(l, SrcKeys(graph.edges_by_src), DstKeys(graph.edges_by_src))
      [] l.op = "find_all_siblings" -> SiblingsStep(graph, l)
      [] l.op = "find_current_tasks" -> CurrentTasksStep(l)

\* WriteFrame with to_process declared static: one stack for all the calls.
WriteFrame_StaticStack(frames, t, l) ==
    [u \in DOMAIN frames |->
        IF u = t THEN l
        ELSE IF frames[u].pc = "running"
             THEN [frames[u] EXCEPT !.to_process = l.to_process]
             ELSE frames[u]]

\* The frames after a step of thread t: every vector a query writes is a
\* local of the call or the caller's own out, so the step writes the frame
\* of t and no other.
WriteFrame(frames, t, l) == [frames EXCEPT ![t] = l]

----------------------------------------------------------------------------
(* The program: a caller builds its input, constructs one dag from it, and *)
(* then queries it any number of times, reading each result before the     *)
(* next call (as main of src/test.cpp does).                               *)

VARIABLES
    edges_in,           \* the caller's edge vector, [edge_begin, edge_end)
    nodes_in,           \* the caller's node vector, [node_begin, node_end)
    pc,                 \* the caller: "start" before the constructor has run,
                        \* "built" between calls, "returned" on a query's return
    m_valid,            \* dag::m_valid
    m_edges_by_src,     \* dag::m_edges_by_src
    m_edges_by_dst,     \* dag::m_edges_by_dst
    m_all_nodes,        \* dag::m_all_nodes
    m_sorted_nodes,     \* dag::m_sorted_nodes
    v1_valid,           \* m_valid of the same dag under the rescanning sort
    v1_sorted_nodes,    \* m_sorted_nodes of the same dag under the rescanning sort
    call,               \* the query that has returned and its arguments
                        \* (out: the output vector as it was passed in)
    ret,                \* what that query returned
    out,                \* the caller's output vector
    sorting,            \* topological_sort while it runs step by step: its
                        \* locals (st), the index of the for loop (i) and
                        \* the iterations of the while loop so far
    threads,            \* the frame of each thread that queries the dag
    completed           \* a scheduler's tasks in the order it completed them

vars == <<edges_in, nodes_in, pc, m_valid, m_edges_by_src, m_edges_by_dst,
          m_all_nodes, m_sorted_nodes, v1_valid, v1_sorted_nodes, call, ret, out,
          sorting, threads, completed>>

step_vars == <<sorting, threads, completed>>

dag_vars == <<edges_in, nodes_in, m_valid, m_edges_by_src, m_edges_by_dst,
              m_all_nodes, m_sorted_nodes, v1_valid, v1_sorted_nodes>>

\* The edges in the order (src, dst).  build() copies the input and sorts the
\* copies, and every order of equal keys is a possible result of the sort, so
\* the order of the input has no effect: the inputs are taken in this order.
EdgeRank(e) == e.src * (MaxNode + 1) + e.dst

EdgeInputs(max) ==
    {es \in UNION {[1..n -> directed_edge] : n \in 0..max} :
        \A i \in 1..(Len(es) - 1) : EdgeRank(es[i]) <= EdgeRank(es[i + 1])}

\* The explicit nodes, in any order and with repetitions.
NodeInputs(max) == UNION {[1..n -> NodeIds] : n \in 0..max}

\* What the caller's output vector holds before the first query: nothing, or
\* stale ids (unsorted, to tell them from any result).
StaleOutputs == {<< >>, <<MaxNode, 0>>}

\* A done vector as find_current_tasks requires it: sorted, no duplicates.
DoneInputs ==
    {d \in UNION {[1..n -> NodeIds] : n \in 0..(MaxNode + 1)} :
        \A i \in 1..(Len(d) - 1) : d[i] < d[i + 1]}

\* topological_sort is not running.
NotSorting == [st |-> KahnState(<< >>, << >>, << >>), i |-> 0, iterations |-> 0]

\* The state before the constructor runs: m_valid(false), empty vectors.
Unbuilt(edge_inputs, node_inputs, outputs, thread_ids) ==
    /\ edges_in \in edge_inputs
    /\ nodes_in \in node_inputs
    /\ pc = "start"
    /\ m_valid = FALSE
    /\ m_edges_by_src = << >>
    /\ m_edges_by_dst = << >>
    /\ m_all_nodes = << >>
    /\ m_sorted_nodes = << >>
    /\ v1_valid = FALSE
    /\ v1_sorted_nodes = << >>
    /\ call = [op |-> "none"]
    /\ ret = FALSE
    /\ out \in outputs
    /\ sorting = NotSorting
    /\ threads = [t \in thread_ids |-> Idle]
    /\ completed = << >>

Init == Unbuilt(EdgeInputs(QueryMaxEdges), NodeInputs(QueryMaxExtra), StaleOutputs, {})

\* dag::dag and dag::build: copy and sort the edges twice, gather the nodes,
\* run topological_sort (both versions of it, on the same vectors).
Construct ==
    /\ pc = "start"
    /\ \E by_src \in SortedBySrc(edges_in), by_dst \in SortedByDst(edges_in) :
       \E all_nodes \in {GatherNodes(nodes_in, by_src)} :
       \E kahn \in {topological_sort(by_src, by_dst, all_nodes)},
          rescan \in {topological_sort_rescan(by_dst, all_nodes)} :
           /\ m_edges_by_src' = by_src
           /\ m_edges_by_dst' = by_dst
           /\ m_all_nodes' = all_nodes
           /\ m_valid' = kahn.valid
           /\ m_sorted_nodes' = kahn.sorted_nodes
           /\ v1_valid' = rescan.valid
           /\ v1_sorted_nodes' = rescan.sorted_nodes
    /\ pc' = "built"
    /\ UNCHANGED <<edges_in, nodes_in, call, ret, out>>
    /\ UNCHANGED step_vars

\* The dag as the queries of part_000 see it, and as those of the earlier
\* header saw it.
Graph ==
    [valid |-> m_valid, edges_by_src |-> m_edges_by_src,
     edges_by_dst |-> m_edges_by_dst, all_nodes |-> m_all_nodes]

GraphV1 ==
    [valid |-> v1_valid, edges_by_src |-> m_edges_by_src,
     edges_by_dst |-> m_edges_by_dst, all_nodes |-> m_all_nodes]

\* A call of a query: the result goes to ret and out, nothing else changes.
Returns(c, r) ==
    /\ pc = "built"
    /\ pc' = "returned"
    /\ call' = c
    /\ \E result \in {r} :
        /\ ret' = result.ret
        /\ out' = result.out
    /\ UNCHANGED dag_vars
    /\ UNCHANGED step_vars

FindBefore ==
    \E id \in NodeIds :
        Returns([op |-> "find_before", node_id |-> id, out |-> out], find_before(Graph, id, out))

FindAfter ==
    \E id \in NodeIds :
        Returns([op |-> "find_after", node_id |-> id, out |-> out], find_after(Graph, id, out))

FindAllBefore ==
    \E id \in NodeIds :
        Returns([op |-> "find_all_before", node_id |-> id, out |-> out],
                find_all_before(Graph, id, out))

FindAllAfter ==
    \E id \in NodeIds :
        Returns([op |-> "find_all_after", node_id |-> id, out |-> out],
                find_all_after(Graph, id, out))

FindAllSiblings ==
    \E id \in NodeIds :
        Returns([op |-> "find_all_siblings", node_id |-> id, out |-> out],
                find_all_siblings(Graph, id, out))

FindAllSiblingsV1 ==
    \E id \in NodeIds :
        Returns([op |-> "find_all_siblings_v1", node_id |-> id, out |-> out],
                find_all_siblings_v1(GraphV1, id, out))

\* A call of find_current_tasks: call.done is the done vector as it was
\* passed in, call.done_left the same vector as the call leaves it.
FindCurrentTasks ==
    /\ pc = "built"
    /\ \E done \in DoneInputs :
       \E left \in {find_current_tasks_reads(Graph, done)} :
        /\ pc' = "returned"
        /\ call' = [op |-> "find_current_tasks", done |-> done,
                    done_left |-> left.done, out |-> out]
        /\ \E result \in {find_current_tasks(Graph, done, out)} :
            /\ ret' = result.ret
            /\ out' = result.out
        /\ m_edges_by_dst' = left.edges_by_dst
        /\ UNCHANGED <<edges_in, nodes_in, m_valid, m_edges_by_src, m_all_nodes,
                       m_sorted_nodes, v1_valid, v1_sorted_nodes>>
        /\ UNCHANGED step_vars

\* The caller has read the result (the printing loops of test.cpp) and is
\* ready for its next call; its output vector keeps what the query left.
ReadResult ==
    /\ pc = "returned"
    /\ pc' = "built"
    /\ call' = [op |-> "none"]
    /\ UNCHANGED <<ret, out>>
    /\ UNCHANGED dag_vars
    /\ UNCHANGED step_vars

Next ==
    \/ Construct
    \/ FindBefore
    \/ FindAfter
    \/ FindAllBefore
    \/ FindAllAfter
    \/ FindAllSiblings
    \/ FindAllSiblingsV1
    \/ FindCurrentTasks
    \/ ReadResult

Spec == Init /\ [][Next]_vars

\* Construction alone, on larger inputs.
InitBuild == Unbuilt(EdgeInputs(MaxEdges), NodeInputs(MaxExtra), {<< >>}, {})

NextBuild == Construct

SpecBuild == InitBuild /\ [][NextBuild]_vars

----------------------------------------------------------------------------
(* Construction and the queries one step at a time: the constructor runs   *)
(* topological_sort an iteration at a time, then each thread calls one     *)
(* query and runs it a step at a time.                                     *)

\* dag::build up to its call of topological_sort, and topological_sort up
\* to its for loop (lines 646-733).  (The rescanning sort of the same
\* vectors runs here, in one step.)
BeginBuild ==
    /\ pc = "start"
    /\ \E by_src \in SortedBySrc(edges_in), by_dst \in SortedByDst(edges_in) :
       \E all_nodes \in {GatherNodes(nodes_in, by_src)} :
           /\ m_edges_by_src' = by_src
           /\ m_edges_by_dst' = by_dst
           /\ m_all_nodes' = all_nodes
           /\ sorting' = [st |-> KahnState(CountIncoming(ZeroCounts(all_nodes), by_dst),
                                           << >>, << >>),
                          i |-> 1,
                          iterations |-> 0]
           /\ \E rescan \in {topological_sort_rescan(by_dst, all_nodes)} :
               /\ v1_valid' = rescan.valid
               /\ v1_sorted_nodes' = rescan.sorted_nodes
    /\ m_sorted_nodes' = << >>
    /\ m_valid' = TRUE
    /\ pc' = "sorting"
    /\ UNCHANGED <<edges_in, nodes_in, call, ret, out, threads, completed>>

\* One iteration of for(auto &count : incoming_counts).
RootLoopStep ==
    /\ pc = "sorting"
    /\ sorting.i <= Len(sorting.st.incoming_counts)
    /\ \E st \in {RootStep(sorting.st, m_edges_by_src, sorting.i)} :
        /\ sorting' = [sorting EXCEPT !.st = st, !.i = sorting.i + 1]
        /\ m_sorted_nodes' = st.sorted_nodes
    /\ UNCHANGED <<edges_in, nodes_in, pc, m_valid, m_edges_by_src, m_edges_by_dst,
                   m_all_nodes, v1_valid, v1_sorted_nodes, call, ret, out,
                   threads, completed>>

\* One iteration of while(!to_process.empty()).
QueueLoopStep ==
    /\ pc = "sorting"
    /\ sorting.i > Len(sorting.st.incoming_counts)
    /\ sorting.st.to_process /= << >>
    /\ \E st \in {QueueStep(sorting.st, m_edges_by_src)} :
        /\ sorting' = [sorting EXCEPT !.st = st,
                                      !.iterations = sorting.iterations + 1]
        /\ m_sorted_nodes' = st.sorted_nodes
    /\ UNCHANGED <<edges_in, nodes_in, pc, m_valid, m_edges_by_src, m_edges_by_dst,
                   m_all_nodes, v1_valid, v1_sorted_nodes, call, ret, out,
                   threads, completed>>

\* The queue is empty: lines 823-828, and the constructor returns.
EndBuild ==
    /\ pc = "sorting"
    /\ sorting.i > Len(sorting.st.incoming_counts)
    /\ sorting.st.to_process = << >>
    /\ \E kahn \in {Finish(sorting.st.sorted_nodes, m_all_nodes)} :
        /\ m_valid' = kahn.valid
        /\ m_sorted_nodes' = kahn.sorted_nodes
    /\ sorting' = [NotSorting EXCEPT !.iterations = sorting.iterations]
    /\ pc' = "built"
    /\ UNCHANGED <<edges_in, nodes_in, m_edges_by_src, m_edges_by_dst, m_all_nodes,
                   v1_valid, v1_sorted_nodes, call, ret, out, threads, completed>>

\* Thread t calls a query on the constructed dag.
Call(t, op, node_id, done_arg) ==
    /\ pc = "built"
    /\ threads[t].pc = "idle"
    /\ threads' = WriteFrame(threads, t, Enter(Graph, op, node_id, done_arg, threads[t]))
    /\ UNCHANGED <<pc, call, ret, out, sorting, completed>>
    /\ UNCHANGED dag_vars

CallFindBefore ==
    \E t \in DOMAIN threads, id \in NodeIds : Call(t, "find_before", id, << >>)

CallFindAfter ==
    \E t \in DOMAIN threads, id \in NodeIds : Call(t, "find_after", id, << >>)

CallFindAllBefore ==
    \E t \in DOMAIN threads, id \in NodeIds : Call(t, "find_all_before", id, << >>)

CallFindAllAfter ==
    \E t \in DOMAIN threads, id \in NodeIds : Call(t, "find_all_after", id, << >>)

CallFindAllSiblings ==
    \E t \in DOMAIN threads, id \in NodeIds : Call(t, "find_all_siblings", id, << >>)

CallFindCurrentTasks ==
    \E t \in DOMAIN threads :
        /\ pc = "built"
        /\ threads[t].pc = "idle"
        /\ \E d \in DoneInputs : Call(t, "find_current_tasks", 0, d)

\* A thread that is in a query takes its next step.
Advance ==
    \E t \in DOMAIN threads :
        /\ pc = "built"
        /\ threads[t].pc = "running"
        /\ threads' = WriteFrame(threads, t, Step(Graph, threads[t]))
        /\ UNCHANGED <<pc, call, ret, out, sorting, completed>>
        /\ UNCHANGED dag_vars

\* One thread.
MainThread == {1}

InitSteps ==
    Unbuilt(EdgeInputs(QueryMaxEdges), NodeInputs(QueryMaxExtra), {<< >>}, MainThread)

NextSteps ==
    \/ BeginBuild
    \/ RootLoopStep
    \/ QueueLoopStep
    \/ EndBuild
    \/ CallFindBefore
    \/ CallFindAfter
    \/ CallFindAllBefore
    \/ CallFindAllAfter
    \/ CallFindAllSiblings
    \/ CallFindCurrentTasks
    \/ Advance

SpecSteps == InitSteps /\ [][NextSteps]_vars

\* The loops that have no bound written in them: the while loop of the sort
\* and the worklist loops of the two closure queries.  The constructor and a
\* query are sequential code: an iteration or a step that can run does run.
NextLoops ==
    \/ BeginBuild
    \/ RootLoopStep
    \/ QueueLoopStep
    \/ EndBuild
    \/ CallFindAllBefore
    \/ CallFindAllAfter
    \/ Advance

SpecLoops ==
    /\ InitSteps
    /\ [][NextLoops]_vars
    /\ WF_vars(RootLoopStep)
    /\ WF_vars(QueueLoopStep)
    /\ WF_vars(EndBuild)
    /\ WF_vars(Advance)

\* Two threads on one dag, their steps in any order: one to observe and one
\* to disturb it.
TwoThreads == {1, 2}

ThreadEdgeInputs ==
    {es \in EdgeInputs(ThreadMaxEdges) :
        \A i \in 1..Len(es) : (es[i].src <= ThreadMaxNode) /\ (es[i].dst <= ThreadMaxNode)}

InitThreads == Unbuilt(ThreadEdgeInputs, {<< >>}, {<< >>}, TwoThreads)

NextThreads ==
    \/ Construct
    \/ CallFindBefore
    \/ CallFindAfter
    \/ CallFindAllBefore
    \/ CallFindAllAfter
    \/ CallFindAllSiblings
    \/ CallFindCurrentTasks
    \/ Advance

SpecThreads == InitThreads /\ [][NextThreads]_vars

----------------------------------------------------------------------------
(* A scheduler over the dag: it asks find_current_tasks what can run now,  *)
(* given the tasks it has completed, completes any one of them, and asks   *)
(* again.                                                                  *)

\* The done vector the scheduler passes: its completed tasks, sorted.
DoneOf(tasks) == sort(tasks)

Complete ==
    /\ pc = "built"
    /\ Len(completed) <= MaxNode + 1
    /\ \E result \in {find_current_tasks(Graph, DoneOf(completed), out)} :
        /\ result.ret
        /\ ret' = result.ret
        /\ out' = result.out
        /\ \E i \in 1..Len(result.out) : completed' = Append(completed, result.out[i])
    /\ UNCHANGED <<pc, call, sorting, threads>>
    /\ UNCHANGED dag_vars

InitScheduler ==
    Unbuilt(EdgeInputs(QueryMaxEdges), NodeInputs(QueryMaxExtra), {<< >>}, {})

NextScheduler == Construct \/ Complete

\* The scheduler goes on as long as there is a task it can complete.
SpecScheduler == InitScheduler /\ [][NextScheduler]_vars /\ WF_vars(Complete)

----------------------------------------------------------------------------
(* What the claims speak of, stated from the caller's input alone.         *)

Range(s) == {s[i] : i \in 1..Len(s)}

StrictlyAscending(s) == \A i \in 1..(Len(s) - 1) : s[i] < s[i + 1]

\* s lists exactly the elements of S, each once.
ListsExactly(s, S) == (Range(s) = S) /\ (Len(s) = Cardinality(S))

\* The directed graph of the input: its edges as pairs, its nodes.
InputEdges == {<<edges_in[i].src, edges_in[i].dst>> : i \in 1..Len(edges_in)}

InputNodes == {e[1] : e \in InputEdges} \cup {e[2] : e \in InputEdges} \cup Range(nodes_in)

Predecessors(n) == {e[1] : e \in {x \in InputEdges : x[2] = n}}

Successors(n) == {e[2] : e \in {x \in InputEdges : x[1] = n}}

\* The nodes from which n is reachable along one or more edges.
RECURSIVE GrowBack(_)
GrowBack(seen) ==
    LET more == seen \cup UNION {Predecessors(m) : m \in seen}
    IN IF more = seen THEN seen ELSE GrowBack(more)

Ancestors(n) == GrowBack(Predecessors(n))

\* The nodes reachable from n along one or more edges.
RECURSIVE GrowForward(_)
GrowForward(seen) ==
    LET more == seen \cup UNION {Successors(m) : m \in seen}
    IN IF more = seen THEN seen ELSE GrowForward(more)

Descendants(n) == GrowForward(Successors(n))

HasCycle == \E n \in NodeIds : n \in Descendants(n)

Position(order, n) == CHOOSE i \in 1..Len(order) : order[i] = n

\* order holds every node of m_all_nodes exactly once and nothing else, and
\* every input edge goes from an earlier position to a later one.
TopologicalOrder(order) ==
    /\ Range(order) = Range(m_all_nodes)
    /\ \A n \in Range(m_all_nodes) :
        Cardinality({i \in 1..Len(order) : order[i] = n}) = 1
    /\ \A e \in InputEdges : Position(order, e[1]) < Position(order, e[2])

Constructed == pc /= "start"

Returned(op) == (pc = "returned") /\ (call.op = op)

\* get_valid() of the dag the returned query was given.
CallValid == IF call.op = "find_all_siblings_v1" THEN v1_valid ELSE m_valid

----------------------------------------------------------------------------
(* The claims.                                                             *)

\* C1: when construction ends with valid == true, get_sorted_nodes() holds
\* every element of get_all_nodes() exactly once and every input edge (u, v)
\* has u at a smaller index than v; for the queue-based sort and for the
\* rescanning one.
C1_TopologicalOrder ==
    Constructed =>
        /\ m_valid => TopologicalOrder(m_sorted_nodes)
        /\ v1_valid => TopologicalOrder(v1_sorted_nodes)

\* A valid dag of three nodes whose order is not the ascending one, over an
\* input with a node of two incoming edges.
C1_Witness ==
    /\ pc = "built"
    /\ m_valid /\ v1_valid
    /\ Len(m_sorted_nodes) = 3
    /\ m_sorted_nodes /= m_all_nodes
    /\ \E n \in NodeIds : Cardinality(Predecessors(n)) = 2

\* C2: construction sets valid to true if and only if the directed graph of
\* the input has no cycle (empty input, duplicate edges and self-loops
\* included); for both sorts.
C2_ValidIffAcyclic ==
    Constructed =>
        /\ m_valid <=> ~HasCycle
        /\ v1_valid <=> ~HasCycle

\* An input with an explicit node and a cycle that is not a self-loop, found
\* invalid.
C2_Witness ==
    /\ pc = "built"
    /\ ~m_valid /\ ~v1_valid
    /\ HasCycle
    /\ \A e \in InputEdges : e[1] /= e[2]
    /\ nodes_in /= << >>

\* C9: after construction the sorted nodes are as many as all nodes if and
\* only if valid is true, and they are empty when valid is false; for both
\* sorts.
C9_SortedSizeIffValid ==
    Constructed =>
        /\ (Len(m_sorted_nodes) = Len(m_all_nodes)) <=> m_valid
        /\ ~m_valid => m_sorted_nodes = << >>
        /\ (Len(v1_sorted_nodes) = Len(m_all_nodes)) <=> v1_valid
        /\ ~v1_valid => v1_sorted_nodes = << >>

\* An invalid dag with a node that has no incoming edge: the sort had put it
\* in the order before it found the cycle, and the order is empty.
C9_Witness ==
    /\ pc = "built"
    /\ ~m_valid
    /\ m_sorted_nodes = << >>
    /\ \E n \in Range(m_all_nodes) : Predecessors(n) = {}

\* C10: for every input get_all_nodes() is strictly ascending and its
\* elements are the sources and destinations of the edges and the explicit
\* nodes.
C10_AllNodes ==
    Constructed =>
        /\ StrictlyAscending(m_all_nodes)
        /\ Range(m_all_nodes) = InputNodes

\* A cyclic input whose explicit node is also an end of an edge.
C10_Witness ==
    /\ pc = "built"
    /\ HasCycle
    /\ \E i \in 1..Len(nodes_in) : \E e \in InputEdges : nodes_in[i] \in {e[1], e[2]}
    /\ Len(m_all_nodes) >= 2

\* The nodes not in done all of whose direct predecessors are in done.
ReadySet(done) ==
    {n \in Range(m_all_nodes) :
        (n \notin Range(done)) /\ (Predecessors(n) \subseteq Range(done))}

\* C3: on a valid graph, for every sorted duplicate-free done array,
\* find_current_tasks returns true and outputs exactly the nodes of
\* all_nodes that are not in done and have all direct predecessors in done.
C3_CurrentTasks ==
    (Returned("find_current_tasks") /\ m_valid) =>
        /\ ret = TRUE
        /\ ListsExactly(out, ReadySet(call.done))

\* A call whose done array holds an id that is no node of the graph and a
\* node whose predecessor is not done, with a task to run.
C3_Witness ==
    /\ Returned("find_current_tasks")
    /\ m_valid
    /\ \E d \in Range(call.done) : d \notin Range(m_all_nodes)
    /\ \E d \in Range(call.done) : ~(Predecessors(d) \subseteq Range(call.done))
    /\ out /= << >>

\* C4: on a valid graph find_all_before outputs exactly the nodes from which
\* id is reachable along one or more edges, find_all_after exactly the nodes
\* reachable from id, and id itself is in neither output.
C4_Closure ==
    /\ (Returned("find_all_before") /\ m_valid) =>
        /\ ListsExactly(out, Ancestors(call.node_id))
        /\ call.node_id \notin Range(out)
    /\ (Returned("find_all_after") /\ m_valid) =>
        /\ ListsExactly(out, Descendants(call.node_id))
        /\ call.node_id \notin Range(out)

\* find_all_before has output a node that is no direct predecessor of id.
C4_Witness ==
    /\ Returned("find_all_before")
    /\ m_valid
    /\ \E n \in Range(out) : n \notin Predecessors(call.node_id)

\* The siblings in out, with what find_all_before and find_all_after output
\* for the same node, part the node set.
SiblingPartition(graph) ==
    LET B == Range(find_all_before(graph, call.node_id, << >>).out)
        A == Range(find_all_after(graph, call.node_id, << >>).out)
        S == Range(out)
        N == Range(graph.all_nodes)
    IN /\ S \cap (B \cup A \cup {call.node_id}) = {}
       /\ S \cup B \cup A \cup {call.node_id} = N

\* C5: for a valid graph and a node n of it, the output of
\* find_all_siblings is disjoint from find_all_before(n), find_all_after(n)
\* and {n}, and the four together are the node set; for the find_all_siblings
\* of part_000 and for the earlier one of dag.h.
C5_Siblings ==
    /\ (Returned("find_all_siblings") /\ m_valid
            /\ call.node_id \in Range(m_all_nodes)) => SiblingPartition(Graph)
    /\ (Returned("find_all_siblings_v1") /\ v1_valid
            /\ call.node_id \in Range(m_all_nodes)) => SiblingPartition(GraphV1)

\* A node with a predecessor and a sibling.
C5_Witness ==
    /\ Returned("find_all_siblings")
    /\ m_valid
    /\ call.node_id \in Range(m_all_nodes)
    /\ out /= << >>
    /\ Predecessors(call.node_id) /= {}

\* C6: on a graph built from a cyclic edge set get_valid() is false and
\* every query returns false with an empty output, whatever the output
\* vector held before the call.
C6_CyclicFails ==
    (Constructed /\ HasCycle) =>
        /\ ~m_valid
        /\ ~v1_valid
        /\ (pc = "returned") => ((ret = FALSE) /\ (out = << >>))

\* A query on a cyclic graph that was handed a vector with ids in it.
C6_Witness ==
    /\ Returned("find_current_tasks")
    /\ HasCycle
    /\ call.out /= << >>
    /\ ret = FALSE

\* C7 as stated: on a valid graph no query reports failure for any input.
C7_Original ==
    (pc = "returned" /\ CallValid) => (ret = TRUE)

\* C7, amended: a query reports failure only when the graph is invalid or,
\* for find_all_siblings alone, when id is not in all_nodes.
C7_FailureConditions ==
    (pc = "returned" /\ ret = FALSE) =>
        \/ ~CallValid
        \/ /\ call.op \in {"find_all_siblings", "find_all_siblings_v1"}
           /\ call.node_id \notin Range(m_all_nodes)

\* find_all_siblings has failed on a valid graph.
C7_Witness ==
    /\ Returned("find_all_siblings")
    /\ m_valid
    /\ ret = FALSE

\* C8: find_all_siblings returns false with an empty output if and only if
\* the graph is invalid or id is not in all_nodes, and true otherwise.
C8_SiblingsFailure ==
    Returned("find_all_siblings") =>
        /\ ((ret = FALSE) /\ (out = << >>))
               <=> (~m_valid \/ (call.node_id \notin Range(m_all_nodes)))
        /\ (m_valid /\ (call.node_id \in Range(m_all_nodes))) => (ret = TRUE)

\* find_all_siblings of an id that is no node of a valid, non-empty graph,
\* handed a vector with ids in it.
C8_Witness ==
    /\ Returned("find_all_siblings")
    /\ m_valid
    /\ m_all_nodes /= << >>
    /\ call.node_id \notin Range(m_all_nodes)
    /\ call.out /= << >>
    /\ (ret = FALSE) /\ (out = << >>)

\* C11: on a valid graph, for every id, find_before returns true and outputs
\* exactly the sources of the edges whose dst is id, find_after returns true
\* and outputs exactly the destinations of the edges whose src is id; for an
\* id that is not in all_nodes both return true with an empty output.
C11_DirectNeighbours ==
    /\ (Returned("find_before") /\ m_valid) =>
        /\ ret = TRUE
        /\ ListsExactly(out, Predecessors(call.node_id))
        /\ (call.node_id \notin Range(m_all_nodes)) => (out = << >>)
    /\ (Returned("find_after") /\ m_valid) =>
        /\ ret = TRUE
        /\ ListsExactly(out, Successors(call.node_id))
        /\ (call.node_id \notin Range(m_all_nodes)) => (out = << >>)

\* find_before of a node that the same edge enters twice, handed a vector
\* with ids in it.
C11_Witness ==
    /\ Returned("find_before")
    /\ m_valid
    /\ \E i, j \in 1..Len(m_edges_by_dst) :
        /\ i /= j
        /\ m_edges_by_dst[i] = m_edges_by_dst[j]
        /\ m_edges_by_dst[i].dst = call.node_id
    /\ call.out /= << >>
    /\ Len(out) = 1

\* C12: on a valid graph, for every node n, what find_before outputs for n
\* is in what find_all_before outputs for n, and for every member m of that
\* output, what find_all_before outputs for m is in it too.
C12_ClosedUnderPredecessor ==
    (Returned("find_all_before") /\ m_valid) =>
        /\ Range(find_before(Graph, call.node_id, << >>).out) \subseteq Range(out)
        /\ \A m \in Range(out) :
            Range(find_all_before(Graph, m, << >>).out) \subseteq Range(out)

\* find_all_before has output more than find_before does, and a member of
\* its output has predecessors of its own.
C12_Witness ==
    /\ Returned("find_all_before")
    /\ m_valid
    /\ Range(find_before(Graph, call.node_id, << >>).out) /= Range(out)
    /\ \E m \in Range(out) : find_all_before(Graph, m, << >>).out /= << >>

\* The Kahn procedure as it is specified: a FIFO worklist of nodes, seeded
\* with the nodes of in-degree zero in ascending id; a popped node is
\* appended to the output, the in-degree of the destination of each of its
\* out-edges, in edges_by_src order, is decremented, and a destination whose
\* in-degree reaches zero is enqueued.
InDegrees(es, nodes) ==
    [n \in Range(nodes) |-> Cardinality({i \in 1..Len(es) : es[i].dst = n})]

OutEdges(es_by_src, n) == SelectSeq(es_by_src, LAMBDA e : e.src = n)

RECURSIVE Decrement(_, _, _)
Decrement(in_degree, worklist, out_edges) ==
    IF out_edges = << >> THEN [in_degree |-> in_degree, worklist |-> worklist]
    ELSE LET d == Head(out_edges).dst
             less == [in_degree EXCEPT ![d] = in_degree[d] - 1]
         IN Decrement(less,
                      IF less[d] = 0 THEN Append(worklist, d) ELSE worklist,
                      Tail(out_edges))

RECURSIVE SpecifiedLoop(_, _, _, _)
SpecifiedLoop(in_degree, worklist, order, es_by_src) ==
    IF worklist = << >> THEN order
    ELSE LET n == Head(worklist)
             after == Decrement(in_degree, Tail(worklist), OutEdges(es_by_src, n))
         IN SpecifiedLoop(after.in_degree, after.worklist, Append(order, n), es_by_src)

SpecifiedKahn(es_by_src, all_nodes) ==
    LET in_degree == InDegrees(es_by_src, all_nodes)
    IN SpecifiedLoop(in_degree,
                     SelectSeq(all_nodes, LAMBDA n : in_degree[n] = 0),
                     << >>, es_by_src)

\* The graph of src/test.cpp, with (0, 1) ahead of (0, 3) in edges_by_src.
DiamondBySrc == <<Edge(0, 1), Edge(0, 3), Edge(1, 2), Edge(2, 4), Edge(3, 4)>>

DiamondByDst == <<Edge(0, 1), Edge(1, 2), Edge(0, 3), Edge(3, 4), Edge(2, 4)>>

DiamondNodes == <<0, 1, 2, 3, 4>>

DiamondOrder ==
    /\ topological_sort(DiamondBySrc, DiamondByDst, DiamondNodes).sorted_nodes
            = <<0, 1, 3, 2, 4>>
    /\ SpecifiedKahn(DiamondBySrc, DiamondNodes) = <<0, 1, 3, 2, 4>>

\* C17: for every acyclic input get_sorted_nodes() is the order that the
\* specified Kahn procedure (a FIFO worklist of nodes) gives on the same
\* edges_by_src, although the code queues one entry per out-edge
\* destination; on the diamond of test.cpp the order is 0, 1, 3, 2, 4.
C17_SpecifiedOrder ==
    /\ (Constructed /\ ~HasCycle) =>
            m_sorted_nodes = SpecifiedKahn(m_edges_by_src, m_all_nodes)
    /\ DiamondOrder

\* An acyclic input of three nodes with a node that the same edge enters
\* twice, sorted into an order that is not the ascending one.
C17_Witness ==
    /\ pc = "built"
    /\ ~HasCycle
    /\ Len(m_sorted_nodes) = 3
    /\ m_sorted_nodes /= m_all_nodes
    /\ \E i, j \in 1..Len(m_edges_by_src) :
        (i /= j) /\ (m_edges_by_src[i] = m_edges_by_src[j])

\* The times e occurs in s.
Count(s, e) == Cardinality({i \in 1..Len(s) : s[i] = e})

\* C19: after construction from any input, get_edges_by_src() and
\* get_edges_by_dst() each hold every edge as many times as the input does
\* (duplicates kept), the first non-decreasing in src and the second
\* non-decreasing in dst.
C19_EdgeArrays ==
    Constructed =>
        /\ \A e \in directed_edge :
            /\ Count(m_edges_by_src, e) = Count(edges_in, e)
            /\ Count(m_edges_by_dst, e) = Count(edges_in, e)
        /\ \A i \in 1..(Len(m_edges_by_src) - 1) :
            m_edges_by_src[i].src <= m_edges_by_src[i + 1].src
        /\ \A i \in 1..(Len(m_edges_by_dst) - 1) :
            m_edges_by_dst[i].dst <= m_edges_by_dst[i + 1].dst

\* An input with a duplicate edge whose two sorted copies differ.
C19_Witness ==
    /\ pc = "built"
    /\ \E e \in directed_edge : Count(edges_in, e) = 2
    /\ m_edges_by_src /= m_edges_by_dst
    /\ Len(m_edges_by_src) = 3

\* The input {(0, 3), (1, 2)}: both sorts find it valid and order the tied
\* nodes 2 and 3 differently.
TiedOrdersDiffer ==
    LET by_src == <<Edge(0, 3), Edge(1, 2)>>
        by_dst == <<Edge(1, 2), Edge(0, 3)>>
        kahn == topological_sort(by_src, by_dst, <<0, 1, 2, 3>>)
        rescan == topological_sort_rescan(by_dst, <<0, 1, 2, 3>>)
    IN /\ kahn.valid /\ rescan.valid
       /\ kahn.sorted_nodes = <<0, 1, 3, 2>>
       /\ rescan.sorted_nodes = <<0, 1, 2, 3>>

\* C20: the rescanning sort and the queue-based sort set the same valid flag
\* for every input, and for every acyclic input each gives a permutation of
\* all_nodes in which every edge goes forward; the two orders may differ
\* among tied nodes, as they do for the edges {(0, 3), (1, 2)}.
C20_SortsAgree ==
    /\ Constructed =>
        /\ m_valid = v1_valid
        /\ ~HasCycle =>
            /\ TopologicalOrder(m_sorted_nodes)
            /\ TopologicalOrder(v1_sorted_nodes)
    /\ TiedOrdersDiffer

\* An acyclic input that the two sorts order differently.
C20_Witness ==
    /\ pc = "built"
    /\ m_valid /\ v1_valid
    /\ m_sorted_nodes /= v1_sorted_nodes

\* The frames of the closure queries.
IsClosure(l) == l.op \in {"find_all_before", "find_all_after"}

\* C13: on a valid graph the output of every query (find_before,
\* find_after, find_all_before, find_all_after, find_all_siblings,
\* find_current_tasks) is strictly ascending when the query returns, duplicate
\* edges or not, and the output of a closure query is strictly ascending
\* after every single insertion while the query runs.
C13_OutputsAscending ==
    \A t \in DOMAIN threads :
        /\ (threads[t].pc = "returned" /\ m_valid) =>
            StrictlyAscending(threads[t].out)
        /\ (threads[t].pc = "running" /\ IsClosure(threads[t])) =>
            StrictlyAscending(threads[t].out)

\* A closure query in its loop, after an insertion in front of an id that
\* was inserted before.
C13_Witness ==
    \E t \in DOMAIN threads :
        /\ threads[t].pc = "running"
        /\ IsClosure(threads[t])
        /\ Len(threads[t].pushed) = 2
        /\ threads[t].pushed[2] < threads[t].pushed[1]
        /\ Len(threads[t].out) = 2

Alone(l) ==
    CASE l.op = "find_before" -> find_before(Graph, l.node_id, << >>)
      [] l.op = "find_after" -> find_after(Graph, l.node_id, << >>)
      [] l.op = "find_all_before" -> find_all_before(Graph, l.node_id, << >>)
      [] l.op = "find_all_after" -> find_all_after(Graph, l.node_id, << >>)
      [] l.op = "find_all_siblings" -> find_all_siblings(Graph, l.node_id, << >>)
      [] l.op = "find_current_tasks" -> find_current_tasks(Graph, l.done, << >>)

\* C15: when threads run queries on the same constructed graph at once, each
\* with its own output vector, their steps in any order and without locks,
\* every query returns the bool and the output it returns when run alone.
C15_ThreadsAsAlone ==
    \A t \in DOMAIN threads :
        (threads[t].pc = "returned") =>
            /\ threads[t].ret = Alone(threads[t]).ret
            /\ threads[t].out = Alone(threads[t]).out

\* A closure query has returned ids while the other thread is inside
\* another closure query with an id on its stack.
C15_Witness ==
    \E t, u \in DOMAIN threads :
        /\ t /= u
        /\ threads[t].pc = "returned"
        /\ IsClosure(threads[t])
        /\ threads[t].out /= << >>
        /\ threads[u].pc = "running"
        /\ IsClosure(threads[u])
        /\ threads[u].to_process /= << >>
        /\ threads[u].out /= << >>

\* No id occurs twice in s.
Distinct(s) == \A i, j \in 1..Len(s) : (i /= j) => (s[i] /= s[j])

\* C16: every operation halts: the topological sort of the constructor ends
\* on every input (cyclic ones and duplicate edges included) after at most
\* one iteration of its while loop per edge, every query that a thread has
\* entered returns, and a closure query pushes no id onto to_process twice
\* after the starting id.
C16_Terminates ==
    /\ (pc = "sorting") ~> (pc = "built")
    /\ \A t \in MainThread : (threads[t].pc = "running") ~> (threads[t].pc = "returned")
    /\ [](sorting.iterations <= Len(m_edges_by_src))
    /\ [](\A t \in MainThread : Distinct(threads[t].pushed))

\* The sort has run its while loop twice and a closure query has returned
\* after it pushed two ids.
C16_Witness ==
    /\ pc = "built"
    /\ sorting.iterations = 2
    /\ \E t \in DOMAIN threads :
        /\ threads[t].pc = "returned"
        /\ IsClosure(threads[t])
        /\ Len(threads[t].pushed) = 2

\* The scheduler has completed every node.
AllCompleted == DoneOf(completed) = m_all_nodes

\* C18: on a valid graph find_current_tasks outputs at least one node for
\* every sorted done vector that does not hold all of all_nodes; so a
\* scheduler that starts from an empty done vector and moves any one of the
\* returned nodes into it at a time is never stuck, completes each node once
\* and every edge's src before its dst, and has completed all of all_nodes
\* after as many steps as there are nodes.
C18_SchedulerProgress ==
    /\ [](pc = "built" /\ m_valid =>
            /\ \A d \in DoneInputs :
                ~(Range(m_all_nodes) \subseteq Range(d)) =>
                    find_current_tasks(Graph, d, << >>).out /= << >>
            /\ ~AllCompleted =>
                find_current_tasks(Graph, DoneOf(completed), << >>).out /= << >>
            /\ Distinct(completed)
            /\ Range(completed) \subseteq Range(m_all_nodes)
            /\ AllCompleted <=> (Len(completed) = Len(m_all_nodes))
            /\ \A e \in InputEdges :
                (e[2] \in Range(completed)) =>
                    /\ e[1] \in Range(completed)
                    /\ Position(completed, e[1]) < Position(completed, e[2]))
    /\ (pc = "built" /\ m_valid) ~> (AllCompleted /\ Len(completed) = Len(m_all_nodes))

\* All three nodes are completed, in an order that is not the ascending one
\* and not the topological order of the dag, over a graph with an edge.
C18_Witness ==
    /\ pc = "built"
    /\ m_valid
    /\ Len(completed) = 3
    /\ AllCompleted
    /\ completed /= m_all_nodes
    /\ completed /= m_sorted_nodes
    /\ InputEdges /= {}

\* id has a record in the in-degree table: lower_bound stops on it.
InTable(counts, id) ==
    LET it == lower_bound(FirstKeys(counts), id)
    IN (it <= Len(counts)) /\ (counts[it].first = id)

\* C21: while the queue-based sort runs, on every input (cyclic ones,
\* self-loops and duplicate edges included): every id on to_process has a
\* record in incoming_counts; the record that the next iteration of the
\* while loop decrements is above zero, so that no counter ever wraps around
\* (each stays at or below the number of edges); and no node is put into
\* m_sorted_nodes twice, neither during the sort nor in what it leaves.
C21_NoWrapAround ==
    /\ (pc = "sorting") =>
         /\ \A q \in 1..Len(sorting.st.to_process) :
                InTable(sorting.st.incoming_counts, sorting.st.to_process[q])
         /\ ((sorting.i > Len(sorting.st.incoming_counts)) /\ (sorting.st.to_process /= << >>)) =>
                sorting.st.incoming_counts[
                    lower_bound(FirstKeys(sorting.st.incoming_counts),
                                Head(sorting.st.to_process))].second > 0
         /\ \A k \in 1..Len(sorting.st.incoming_counts) :
                sorting.st.incoming_counts[k].second <= Len(m_edges_by_dst)
         /\ Distinct(sorting.st.sorted_nodes)
    /\ Distinct(m_sorted_nodes)

\* The while loop has run twice and brought to zero the counter of a node
\* that two edges of the input point to (two sources, or one edge twice).
C21_Witness ==
    /\ pc = "sorting"
    /\ sorting.iterations = 2
    /\ \E k \in 1..Len(sorting.st.incoming_counts) :
        /\ sorting.st.incoming_counts[k].second = 0
        /\ Count(DstKeys(m_edges_by_dst), sorting.st.incoming_counts[k].first) = 2
        /\ sorting.st.sorted_nodes[Len(sorting.st.sorted_nodes)] = sorting.st.incoming_counts[k].first

====
